---- MODULE Spec2Model ----
(***************************************************************************)
(* Model of the Text Classifier node                                       *)
(* (packages/@n8n/nodes-langchain/nodes/chains/TextClassifier/             *)
(* TextClassifier.node.ts): configuredOutputs and TextClassifier.execute.  *)
(*                                                                         *)
(* Indices are kept 0-based as in the source (itemIdx, pairedItem.item,    *)
(* branch idx); TLA+ sequences are 1-based, so items[itemIdx + 1] is the   *)
(* source's items[itemIdx] and returnData[idx + 1] is returnData[idx].     *)
(***************************************************************************)
EXTENDS Integers, Sequences, FiniteSets, TLC

\* ------------------------------------------------------------------ bounds
MaxCats == 2
MaxItems == 2

\* ------------------------------------------------------- values of the host
\* JavaScript undefined / null, for a parameter or a json field that is absent
Undefined == "undefined"
\* a paired-item slot, or an error, that carries no item index
NoIndex == -1

\* names a category can be given; "fallback" collides with the key of the
\* fallback field (line 252)
CategoryNames == {"A", "B", "fallback"}
\* values of item.json.category / item.json.description (Undefined: not a
\* string; "input" collides with the key the aggregate result adds, line 292)
JsonCategoryValues == {"A", "input", "", Undefined}
JsonDescriptionValues == {"d", Undefined}
\* values of the inputText parameter evaluated for one item
TextValues == {"t", Undefined}
\* values of options.fallback (Undefined: option not set)
FallbackValues == {"discard", "other", Undefined}
\* messages of the errors the chain (model call, output parser) can throw
LLM_ERROR == "model call failed"
PARSE_ERROR == "failed to parse"

VARIABLES
    parameters,      \* the node parameters ($parameter / getNodeParameter)
    continueOnFail,  \* this.continueOnFail()
    items,           \* this.getInputData(): json fields and pairedItem of each item
    pc,              \* "start", "loop", "done" (execute returned), "raised" (execute threw)
    categories,      \* the resolved categories
    fallback,        \* options?.fallback ?? 'discard'
    schema,          \* keys of the zod object schema, in insertion order
    prompt,          \* the policy phrases of the system prompt
    returnData,      \* per-item mode: the branches under construction
    itemIdx,         \* per-item mode: the loop counter
    inputs,          \* history: the inputText value read for each item
    outcomes,        \* history: what chain.invoke produced for each item
    invocations,     \* history: number of model invocations made for each item
    result,          \* the value execute returned
    raised,          \* the error execute threw
    run,             \* 1 in the first execution of the node, 2 in a repeated one
    first            \* history: what the first execution read, got and produced

vars == <<parameters, continueOnFail, items, pc, categories, fallback, schema,
          prompt, returnData, itemIdx, inputs, outcomes, invocations, result, raised,
          run, first>>

\* --------------------------------------------------------------- helpers
RECURSIVE SeqsUpTo(_, _)
\* all sequences over S of length at most n
SeqsUpTo(S, n) ==
    IF n = 0 THEN {<<>>}
    ELSE LET shorter == SeqsUpTo(S, n - 1)
         IN shorter \cup {Append(s, x) : s \in {t \in shorter : Len(t) = n - 1}, x \in S}

RECURSIVE ObjectKeys(_)
\* the keys of Object.fromEntries(entries), given the keys of the entries:
\* a repeated key keeps the position of its first occurrence
ObjectKeys(keys) ==
    IF keys = <<>> THEN <<>>
    ELSE LET front == ObjectKeys(SubSeq(keys, 1, Len(keys) - 1))
             last == keys[Len(keys)]
         IN IF \E k \in DOMAIN front : front[k] = last THEN front ELSE Append(front, last)

Range(s) == {s[k] : k \in DOMAIN s}

RECURSIVE SumLen(_, _)
\* total number of entries on the first n branches
SumLen(branches, n) ==
    IF n = 0 THEN 0 ELSE Len(branches[n]) + SumLen(branches, n - 1)

\* ------------------------------------------------------ configuredOutputs
\* configuredOutputs that forgets the 'Other' output
configuredOutputsNoOther(p) ==
    IF p.loadCategoriesFromInputItems THEN <<"Output">>
    ELSE [k \in 1..Len(p.categories) |-> p.categories[k].category]

configuredOutputs(p) ==
    IF p.loadCategoriesFromInputItems THEN <<"Output">>
    ELSE LET ret == [k \in 1..Len(p.categories) |-> p.categories[k].category]
         IN IF p.options.fallback = "other" THEN Append(ret, "Other") ELSE ret

\* ------------------------------------------------- schema, prompt, chain
\* schemaEntries (lines 242-254 / 322-334): one entry per category, then 'fallback'
schemaEntries(cats, fb) ==
    LET entries == [k \in 1..Len(cats) |-> cats[k].category]
    IN IF fb = "other" THEN Append(entries, "fallback") ELSE entries

\* z.object(Object.fromEntries(schemaEntries)): the declared boolean fields
zObject(entries) == ObjectKeys(entries)

multiClassPrompt(multiClass) ==
    IF multiClass THEN "Categories are not mutually exclusive, and multiple can be true"
    ELSE "Categories are mutually exclusive, and only one can be true"

fallbackPrompt(fb) ==
    CASE fb = "other" -> "If no categories apply, select the \"fallback\" option."
      [] fb = "discard" -> "If there is not a very fitting category, select none of the categories."
      [] OTHER -> Undefined

\* the answers the structured parser accepts: a boolean for every declared field
Answers(sch) == [Range(sch) -> BOOLEAN]

NoOutput == <<>>

\* a chain that asks the model again after a parse failure even when
\* auto-fixing is off
ChainOutcomesAlwaysRetry(sch, enableAutoFixing) ==
    {[status |-> "error", output |-> NoOutput, error |-> LLM_ERROR, calls |-> 1]}
    \cup {[status |-> "ok", output |-> o, error |-> "", calls |-> c] :
             o \in [Range(sch) -> BOOLEAN], c \in {1, 2}}
    \cup {[status |-> "error", output |-> NoOutput, error |-> e, calls |-> 2] :
             e \in {LLM_ERROR, PARSE_ERROR}}

\* What one chain.invoke can do: the model call throws; the answer parses;
\* the answer does not parse and, without auto-fixing, the parser throws;
\* with auto-fixing (OutputFixingParser.fromLLM) the model is invoked a second
\* time and the repaired answer parses or the parser throws.
\* calls is the number of model invocations made.
ChainOutcomes(sch, enableAutoFixing) ==
    {[status |-> "error", output |-> NoOutput, error |-> LLM_ERROR, calls |-> 1]}
    \cup {[status |-> "ok", output |-> o, error |-> "", calls |-> 1] : o \in Answers(sch)}
    \cup (IF enableAutoFixing
          THEN {[status |-> "error", output |-> NoOutput, error |-> LLM_ERROR, calls |-> 2],
                [status |-> "error", output |-> NoOutput, error |-> PARSE_ERROR, calls |-> 2]}
               \cup {[status |-> "ok", output |-> o, error |-> "", calls |-> 2] : o \in Answers(sch)}
          ELSE {[status |-> "error", output |-> NoOutput, error |-> PARSE_ERROR, calls |-> 1]})

\* the outcome recorded for an item the chain was never invoked for
NotInvoked == [status |-> "none", output |-> NoOutput, error |-> "", calls |-> 0]

\* ------------------------------------------------------ errors and entries
\* new NodeOperationError(node, message); item is the index the message names
NodeOperationError(message, item) ==
    [type |-> "NodeOperationError", message |-> message, item |-> item]

\* an error thrown by the chain: what the catch clause sees (the chain is given
\* categories, format_instructions and inputText only, never the item index)
ChainError(message) == [type |-> "Error", message |-> message, item |-> NoIndex]

NoError == [type |-> "none", message |-> "", item |-> NoIndex]

\* returnData[idx].push(item): the branch holds a reference to the input item
ItemEntry(idx) == [kind |-> "item", ref |-> idx, error |-> "", pairedItem |-> NoIndex,
                   json |-> NoOutput]

\* { json: { error: message }, pairedItem: { item: itemIdx } }
ErrorRecord(message, idx) == [kind |-> "error", ref |-> NoIndex, error |-> message,
                              pairedItem |-> idx, json |-> NoOutput]

\* the aggregate error item with its error payload left out
AggregateErrorRecordEmpty(message) == [kind |-> "error", ref |-> NoIndex, error |-> "",
                                       pairedItem |-> NoIndex, json |-> NoOutput]

\* { json: { error: message } } of the aggregate branch (line 294)
AggregateErrorRecord(message) == [kind |-> "error", ref |-> NoIndex, error |-> message,
                                  pairedItem |-> NoIndex, json |-> NoOutput]

\* a JSON value with its JavaScript type
JsonBoolean(b) == [type |-> "boolean", bool |-> b, string |-> ""]
JsonString(str) == [type |-> "string", bool |-> FALSE, string |-> str]

\* { ...output, input }: the answer's fields, then the key input, which
\* replaces an answer field of that name
MergeInput(output, input) ==
    [k \in (DOMAIN output) \cup {"input"} |->
       IF k = "input" THEN JsonString(input) ELSE JsonBoolean(output[k])]

\* { json: { ...output, input } } (line 292)
AggregateEntry(output, input) == [kind |-> "answer", ref |-> NoIndex, error |-> "",
                                  pairedItem |-> NoIndex, json |-> MergeInput(output, input)]

\* the paired-item index an entry of a branch carries
PairedItemOf(entry) ==
    IF entry.kind = "item" THEN items[entry.ref + 1].pairedItem ELSE entry.pairedItem

\* NewReturnData without the trailing fallback branch
NewReturnDataNoFallback(cats, fb) == [b \in 1..Len(cats) |-> <<>>]

\* Array.from({ length: categories.length + (fallback === 'other' ? 1 : 0) }, (_) => [])
NewReturnData(cats, fb) ==
    [b \in 1..(Len(cats) + (IF fb = "other" THEN 1 ELSE 0)) |-> <<>>]

\* Route with exclusivity enforced: only the first branch whose field is true
RouteFirstTrueOnly(rd, cats, fb, output, idx) ==
    LET wanted == {b \in DOMAIN rd :
                     IF b <= Len(cats) THEN output[cats[b].category]
                     ELSE fb = "other" /\ output["fallback"]}
    IN [b \in DOMAIN rd |->
          IF b \in wanted /\ \A c \in wanted : b <= c
          THEN Append(rd[b], ItemEntry(idx)) ELSE rd[b]]

\* Route that pushes on the last branch whenever fallback is "other", whatever
\* the answer's fallback field
RouteAlwaysFallback(rd, cats, fb, output, idx) ==
    LET afterCats == [b \in DOMAIN rd |->
                        IF b <= Len(cats) /\ output[cats[b].category]
                        THEN Append(rd[b], ItemEntry(idx)) ELSE rd[b]]
    IN IF fb = "other"
       THEN [afterCats EXCEPT ![Len(rd)] = Append(@, ItemEntry(idx))]
       ELSE afterCats

\* Route whose fallback push lands on returnData[0] instead of the last branch
RouteFallbackFirst(rd, cats, fb, output, idx) ==
    LET afterCats == [b \in DOMAIN rd |->
                        IF b <= Len(cats) /\ output[cats[b].category]
                        THEN Append(rd[b], ItemEntry(idx)) ELSE rd[b]]
    IN IF fb = "other" /\ output["fallback"]
       THEN [afterCats EXCEPT ![1] = Append(@, ItemEntry(idx))]
       ELSE afterCats

\* Route that pushes the item twice on every branch it selects
RouteTwice(rd, cats, fb, output, idx) ==
    LET afterCats == [b \in DOMAIN rd |->
                        IF b <= Len(cats) /\ output[cats[b].category]
                        THEN Append(Append(rd[b], ItemEntry(idx)), ItemEntry(idx)) ELSE rd[b]]
    IN IF fb = "other" /\ output["fallback"]
       THEN [afterCats EXCEPT ![Len(rd)] = Append(Append(@, ItemEntry(idx)), ItemEntry(idx))]
       ELSE afterCats

\* Route that leaves out an item that already carries a pairedItem, as one
\* processed by an earlier execution does
RouteSkipsPaired(rd, cats, fb, output, idx) ==
    IF items[idx + 1].pairedItem # NoIndex THEN rd
    ELSE LET afterCats == [b \in DOMAIN rd |->
                             IF b <= Len(cats) /\ output[cats[b].category]
                             THEN Append(rd[b], ItemEntry(idx)) ELSE rd[b]]
         IN IF fb = "other" /\ output["fallback"]
            THEN [afterCats EXCEPT ![Len(rd)] = Append(@, ItemEntry(idx))]
            ELSE afterCats

\* lines 398-401: push the item on the branch of every category whose field is
\* true, then on the last branch when the fallback field is true
Route(rd, cats, fb, output, idx) ==
    LET afterCats == [b \in DOMAIN rd |->
                        IF b <= Len(cats) /\ output[cats[b].category]
                        THEN Append(rd[b], ItemEntry(idx)) ELSE rd[b]]
    IN IF fb = "other" /\ output["fallback"]
       THEN [afterCats EXCEPT ![Len(rd)] = Append(@, ItemEntry(idx))]
       ELSE afterCats

\* PushError that pushes on the last branch
PushErrorLastBranch(rd, message, idx) ==
    [rd EXCEPT ![Len(rd)] = Append(@, ErrorRecord(message, idx))]

\* PushError that puts the record in front of the branch
PushErrorInFront(rd, message, idx) ==
    [rd EXCEPT ![1] = <<ErrorRecord(message, idx)>> \o @]

\* PushError that pairs the record with item 0 whatever item failed
PushErrorUnpaired(rd, message, idx) == [rd EXCEPT ![1] = Append(@, ErrorRecord(message, 0))]

\* returnData[0].push(error record)
PushError(rd, message, idx) == [rd EXCEPT ![1] = Append(@, ErrorRecord(message, idx))]

\* ------------------------------------------------------------------- Init
\* the history of the first execution while it is still running
NoFirstRun == [pc |-> "none", inputs |-> <<>>, outcomes |-> <<>>, output |-> <<>>,
               raised |-> NoError, reused |-> FALSE]

NoCategoryItem == [category |-> Undefined, description |-> Undefined, pairedItem |-> NoIndex]

StaticCategories == SeqsUpTo({[category |-> n, description |-> "d"] : n \in CategoryNames}, MaxCats)

OptionValues == [multiClass : BOOLEAN, fallback : FallbackValues, enableAutoFixing : BOOLEAN]

\* In per-item mode the items are plain data items (execute never reads their
\* category fields); when categories are loaded from the input items each item
\* is a category source and the categories parameter is hidden (line 116).
Init ==
    /\ \E load \in BOOLEAN, opts \in OptionValues :
         \E cats \in (IF load THEN {<<>>} ELSE StaticCategories) :
           parameters = [loadCategoriesFromInputItems |-> load, categories |-> cats,
                         options |-> opts]
    /\ continueOnFail \in BOOLEAN
    /\ items \in (IF parameters.loadCategoriesFromInputItems
                  THEN SeqsUpTo([category : JsonCategoryValues,
                                 description : JsonDescriptionValues,
                                 pairedItem : {NoIndex}], MaxItems)
                  ELSE SeqsUpTo({NoCategoryItem}, MaxItems))
    /\ pc = "start"
    /\ categories = <<>>
    /\ fallback = Undefined
    /\ schema = <<>>
    /\ prompt = <<>>
    /\ returnData = <<>>
    /\ itemIdx = 0
    /\ inputs = [k \in 1..Len(items) |-> "unread"]
    /\ outcomes = [k \in 1..Len(items) |-> NotInvoked]
    /\ invocations = [k \in 1..Len(items) |-> 0]
    /\ result = <<>>
    /\ raised = NoError
    /\ run = 1
    /\ first = NoFirstRun

\* --------------------------------------------------------------- execute
\* getNodeParameter('inputText', k) in a repeated execution over the same batch
\* evaluates to what it evaluated to the first time
SameBatch(k, input) ==
    IF run = 1 THEN TRUE ELSE first.inputs[k + 1] \in {"unread", input}

\* chain.invoke in a repeated execution under a stub that is a function of the
\* input text: the outcome is the one the first execution got for that text
StubReturns(input, outcome) ==
    IF run = 1 THEN TRUE
    ELSE \A j \in DOMAIN first.inputs :
             (first.inputs[j] = input /\ first.outcomes[j].status # "none")
                 => outcome = first.outcomes[j]

\* options?.fallback ?? 'discard'
FallbackOption(opts) == IF opts.fallback = Undefined THEN "discard" ELSE opts.fallback

\* the three policy phrases of the system prompt (lines 262-278 / 342-358)
PromptTemplate(opts) ==
    <<"{format_instructions}", multiClassPrompt(opts.multiClass),
      fallbackPrompt(FallbackOption(opts))>>

\* the item check with the description test left out
InvalidCategoryItemsCategoryOnly ==
    {k \in 0..(Len(items) - 1) : items[k + 1].category = Undefined}

\* items.map(...) of lines 205-215: indices of the items that make it throw
InvalidCategoryItems ==
    {k \in 0..(Len(items) - 1) :
        items[k + 1].category = Undefined \/ items[k + 1].description = Undefined}

Min(S) == CHOOSE x \in S : \A y \in S : x <= y

\* the empty-category test with the check left out
NoCategoriesNever(cats) == FALSE

\* !categories || categories.length === 0 (lines 217, 302)
NoCategories(cats) == Len(cats) = 0

\* Per-item branch up to the loop (lines 297-367).
StartPerItem ==
    /\ UNCHANGED <<run, first>>
    /\ pc = "start"
    /\ ~parameters.loadCategoriesFromInputItems
    /\ categories' = parameters.categories
    /\ IF NoCategories(parameters.categories)
       THEN /\ raised' = NodeOperationError("At least one category must be defined", NoIndex)
            /\ pc' = "raised"
            /\ UNCHANGED <<fallback, schema, prompt, returnData>>
       ELSE /\ fallback' = FallbackOption(parameters.options)
            /\ schema' = zObject(schemaEntries(parameters.categories, fallback'))
            /\ prompt' = PromptTemplate(parameters.options)
            /\ returnData' = NewReturnData(parameters.categories, fallback')
            /\ pc' = "loop"
            /\ UNCHANGED raised
    /\ UNCHANGED <<parameters, continueOnFail, items, itemIdx, inputs, outcomes,
                   invocations, result>>

\* Loop body, lines 371-388, for an item whose inputText is undefined or null.
ItemTextMissing ==
    /\ UNCHANGED <<run, first>>
    /\ pc = "loop"
    /\ itemIdx < Len(items)
    /\ SameBatch(itemIdx, Undefined)
    /\ items' = [items EXCEPT ![itemIdx + 1].pairedItem = itemIdx]
    /\ inputs' = [inputs EXCEPT ![itemIdx + 1] = Undefined]
    /\ IF continueOnFail
       THEN /\ returnData' = PushError(returnData, "Text to classify is not defined", itemIdx)
            /\ itemIdx' = itemIdx + 1
            /\ UNCHANGED <<pc, raised>>
       ELSE /\ raised' = NodeOperationError("Text to classify for item is not defined", itemIdx)
            /\ pc' = "raised"
            /\ UNCHANGED <<returnData, itemIdx>>
    /\ UNCHANGED <<parameters, continueOnFail, categories, fallback, schema, prompt,
                   outcomes, invocations, result>>

\* Loop body, lines 371-401, for an item the chain returns an answer for.
ItemClassified ==
    /\ UNCHANGED <<run, first>>
    /\ pc = "loop"
    /\ itemIdx < Len(items)
    /\ \E input \in TextValues \ {Undefined} :
         \E outcome \in ChainOutcomes(schema, parameters.options.enableAutoFixing) :
           /\ outcome.status = "ok"
           /\ SameBatch(itemIdx, input)
           /\ StubReturns(input, outcome)
           /\ items' = [items EXCEPT ![itemIdx + 1].pairedItem = itemIdx]
           /\ inputs' = [inputs EXCEPT ![itemIdx + 1] = input]
           /\ outcomes' = [outcomes EXCEPT ![itemIdx + 1] = outcome]
           /\ invocations' = [invocations EXCEPT ![itemIdx + 1] = @ + outcome.calls]
           /\ returnData' = Route(returnData, categories, fallback, outcome.output, itemIdx)
    /\ itemIdx' = itemIdx + 1
    /\ UNCHANGED <<parameters, continueOnFail, pc, categories, fallback, schema, prompt,
                   result, raised>>

\* ItemFailed whose catch clause never rethrows: the loop goes on after a
\* failure even when continue-on-fail is off
ItemFailedNeverRethrows ==
    /\ UNCHANGED <<run, first>>
    /\ pc = "loop"
    /\ itemIdx < Len(items)
    /\ \E input \in TextValues \ {Undefined} :
         \E outcome \in ChainOutcomes(schema, parameters.options.enableAutoFixing) :
           /\ outcome.status = "error"
           /\ SameBatch(itemIdx, input)
           /\ StubReturns(input, outcome)
           /\ items' = [items EXCEPT ![itemIdx + 1].pairedItem = itemIdx]
           /\ inputs' = [inputs EXCEPT ![itemIdx + 1] = input]
           /\ outcomes' = [outcomes EXCEPT ![itemIdx + 1] = outcome]
           /\ invocations' = [invocations EXCEPT ![itemIdx + 1] = @ + outcome.calls]
           /\ returnData' = PushError(returnData, outcome.error, itemIdx)
           /\ itemIdx' = itemIdx + 1
    /\ UNCHANGED <<parameters, continueOnFail, pc, raised, categories, fallback, schema,
                   prompt, result>>

\* Loop body, lines 371-396 and the catch clause 402-412, for an item the
\* chain throws for.
ItemFailed ==
    /\ UNCHANGED <<run, first>>
    /\ pc = "loop"
    /\ itemIdx < Len(items)
    /\ \E input \in TextValues \ {Undefined} :
         \E outcome \in ChainOutcomes(schema, parameters.options.enableAutoFixing) :
           /\ outcome.status = "error"
           /\ SameBatch(itemIdx, input)
           /\ StubReturns(input, outcome)
           /\ items' = [items EXCEPT ![itemIdx + 1].pairedItem = itemIdx]
           /\ inputs' = [inputs EXCEPT ![itemIdx + 1] = input]
           /\ outcomes' = [outcomes EXCEPT ![itemIdx + 1] = outcome]
           /\ invocations' = [invocations EXCEPT ![itemIdx + 1] = @ + outcome.calls]
           /\ IF continueOnFail
              THEN /\ returnData' = PushError(returnData, outcome.error, itemIdx)
                   /\ itemIdx' = itemIdx + 1
                   /\ UNCHANGED <<pc, raised>>
              ELSE /\ raised' = ChainError(outcome.error)
                   /\ pc' = "raised"
                   /\ UNCHANGED <<returnData, itemIdx>>
    /\ UNCHANGED <<parameters, continueOnFail, categories, fallback, schema, prompt, result>>

\* The loop condition fails: return returnData (line 414).
LoopExit ==
    /\ UNCHANGED <<run, first>>
    /\ pc = "loop"
    /\ itemIdx >= Len(items)
    /\ result' = returnData
    /\ pc' = "done"
    /\ UNCHANGED <<parameters, continueOnFail, items, categories, fallback, schema, prompt,
                   returnData, itemIdx, inputs, outcomes, invocations, raised>>

\* Aggregate branch up to the chain (lines 203-282): categories from the items,
\* the text of item 0, schema and prompt.
StartAggregate ==
    /\ UNCHANGED <<run, first>>
    /\ pc = "start"
    /\ parameters.loadCategoriesFromInputItems
    /\ IF InvalidCategoryItems # {}
       THEN /\ raised' = NodeOperationError(
                           "Input item is missing a valid 'category' or 'description' field.",
                           Min(InvalidCategoryItems))
            /\ pc' = "raised"
            /\ UNCHANGED <<categories, fallback, schema, prompt, inputs>>
       ELSE /\ categories' = [k \in 1..Len(items) |->
                                [category |-> items[k].category,
                                 description |-> items[k].description]]
            /\ IF NoCategories(categories')
               THEN /\ raised' = NodeOperationError("At least one category must be defined",
                                                    NoIndex)
                    /\ pc' = "raised"
                    /\ UNCHANGED <<fallback, schema, prompt, inputs>>
               ELSE \E input \in TextValues :
                      /\ SameBatch(0, input)
                      /\ inputs' = [inputs EXCEPT ![1] = input]
                      /\ IF input = Undefined
                         THEN /\ raised' = NodeOperationError("Text to classify is not defined",
                                                              NoIndex)
                              /\ pc' = "raised"
                              /\ UNCHANGED <<fallback, schema, prompt>>
                         ELSE /\ fallback' = FallbackOption(parameters.options)
                              /\ schema' = zObject(schemaEntries(categories', fallback'))
                              /\ prompt' = PromptTemplate(parameters.options)
                              /\ pc' = "aggregate"
                              /\ UNCHANGED raised
    /\ UNCHANGED <<parameters, continueOnFail, items, returnData, itemIdx, outcomes,
                   invocations, result>>

\* Lines 285-292: the chain returns an answer.
AggregateReturn ==
    /\ UNCHANGED <<run, first>>
    /\ pc = "aggregate"
    /\ \E outcome \in ChainOutcomes(schema, parameters.options.enableAutoFixing) :
         /\ outcome.status = "ok"
         /\ StubReturns(inputs[1], outcome)
         /\ outcomes' = [outcomes EXCEPT ![1] = outcome]
         /\ invocations' = [invocations EXCEPT ![1] = @ + outcome.calls]
         /\ result' = <<(<<AggregateEntry(outcome.output, inputs[1])>>)>>
    /\ pc' = "done"
    /\ UNCHANGED <<parameters, continueOnFail, items, categories, fallback, schema, prompt,
                   returnData, itemIdx, inputs, raised>>

\* Lines 285-295: the chain throws and the catch clause returns an error item.
AggregateCatch ==
    /\ UNCHANGED <<run, first>>
    /\ pc = "aggregate"
    /\ \E outcome \in ChainOutcomes(schema, parameters.options.enableAutoFixing) :
         /\ outcome.status = "error"
         /\ StubReturns(inputs[1], outcome)
         /\ outcomes' = [outcomes EXCEPT ![1] = outcome]
         /\ invocations' = [invocations EXCEPT ![1] = @ + outcome.calls]
         /\ result' = <<(<<AggregateErrorRecord(outcome.error)>>)>>
    /\ pc' = "done"
    /\ UNCHANGED <<parameters, continueOnFail, items, categories, fallback, schema, prompt,
                   returnData, itemIdx, inputs, raised>>

Next ==
    \/ StartPerItem
    \/ ItemTextMissing
    \/ ItemClassified
    \/ ItemFailed
    \/ LoopExit
    \/ StartAggregate
    \/ AggregateReturn
    \/ AggregateCatch

Spec == Init /\ [][Next]_vars

\* ------------------------------------------------- executing the node twice
\* the branches as their consumer sees them: each routed entry together with
\* the input item (json fields and pairedItem) it refers to
ResolvedBranches(branches) ==
    [b \in DOMAIN branches |->
       [p \in DOMAIN branches[b] |->
          [entry |-> branches[b][p],
           item |-> IF branches[b][p].kind = "item"
                    THEN items[branches[b][p].ref + 1] ELSE NoCategoryItem]]]

\* the first execution behaved as a stub that is a function of the input text
\* would: equal texts got equal outcomes
StubIsFunctionOfText ==
    \A j, k \in DOMAIN inputs :
        (inputs[j] = inputs[k] /\ outcomes[j].status # "none" /\ outcomes[k].status # "none")
            => outcomes[j] = outcomes[k]

\* The host executes the node again with the same parameters over the same
\* batch and the same model stub, either on the item objects the first
\* execution processed (which carry the pairedItem line 372 gave them) or on
\* fresh copies; execute starts with fresh locals.
Rerun ==
    /\ run = 1
    /\ pc \in {"done", "raised"}
    /\ StubIsFunctionOfText
    /\ run' = 2
    /\ \E reuse \in BOOLEAN :
         /\ first' = [pc |-> pc, inputs |-> inputs, outcomes |-> outcomes,
                      output |-> ResolvedBranches(result), raised |-> raised,
                      reused |-> reuse]
         /\ items' = IF reuse THEN items
                     ELSE [k \in DOMAIN items |-> [items[k] EXCEPT !.pairedItem = NoIndex]]
    /\ pc' = "start"
    /\ categories' = <<>>
    /\ fallback' = Undefined
    /\ schema' = <<>>
    /\ prompt' = <<>>
    /\ returnData' = <<>>
    /\ itemIdx' = 0
    /\ inputs' = [k \in DOMAIN items |-> "unread"]
    /\ outcomes' = [k \in DOMAIN items |-> NotInvoked]
    /\ invocations' = [k \in DOMAIN items |-> 0]
    /\ result' = <<>>
    /\ raised' = NoError
    /\ UNCHANGED <<parameters, continueOnFail>>

NextTwice ==
    \/ StartPerItem
    \/ ItemTextMissing
    \/ ItemClassified
    \/ ItemFailed
    \/ LoopExit
    \/ StartAggregate
    \/ AggregateReturn
    \/ AggregateCatch
    \/ Rerun

SpecTwice == Init /\ [][NextTwice]_vars

\* ================================================================ claims
PerItemMode == ~parameters.loadCategoriesFromInputItems

\* the 0-based indices of the input items
ItemIndices == 0..(Len(items) - 1)

\* item k (0-based) was classified successfully
Succeeded(k) == outcomes[k + 1].status = "ok"

\* item k (0-based) failed: its text was missing or the chain threw
Failed(k) == inputs[k + 1] = Undefined \/ outcomes[k + 1].status = "error"

\* branch b (1-based) of branches holds input item k (0-based) as a routed item
OnBranch(branches, b, k) ==
    \E p \in DOMAIN branches[b] : branches[b][p].kind = "item" /\ branches[b][p].ref = k

\* C1: in per-item mode, whatever multiClass is, a successfully classified item
\* is on the branch of category index i exactly when the answer's field for
\* category i is true, and on the trailing branch exactly when fallback is
\* "other" and the answer's fallback field is true (with another fallback policy
\* there is no trailing branch); several true fields are never reduced to one.
C1_RoutesEveryTrueField ==
    (PerItemMode /\ pc \in {"loop", "done", "raised"} /\ Len(categories) > 0) =>
        \A k \in ItemIndices : Succeeded(k) =>
            /\ \A i \in 1..Len(categories) :
                 OnBranch(returnData, i, k) <=> outcomes[k + 1].output[categories[i].category]
            /\ fallback = "other" =>
                 (OnBranch(returnData, Len(categories) + 1, k)
                    <=> outcomes[k + 1].output["fallback"])
            /\ fallback # "other" => Len(returnData) = Len(categories)
            /\ pc = "done" => result = returnData

\* a run with multiClass off has placed one item on two branches
C1_Witness ==
    /\ PerItemMode /\ pc = "done" /\ ~parameters.options.multiClass
    /\ \E k \in ItemIndices : \E b, c \in 1..Len(categories) :
         /\ categories[b].category # categories[c].category
         /\ Succeeded(k) /\ OnBranch(result, b, k) /\ OnBranch(result, c, k)

\* C5: every per-item run that completes returns exactly
\* categoryCount + (1 if fallback is "other", else 0) branches.
C5_BranchCount ==
    (PerItemMode /\ pc = "done") =>
        Len(result) = Len(parameters.categories)
                      + (IF parameters.options.fallback = "other" THEN 1 ELSE 0)

\* a completed run with the fallback branch and a tolerated failure
C5_Witness ==
    /\ PerItemMode /\ pc = "done" /\ parameters.options.fallback = "other"
    /\ \E k \in ItemIndices : Failed(k)
    /\ \E k \in ItemIndices : Succeeded(k)

\* C6: whenever execute returns, it returns as many branches as
\* configuredOutputs declares for the same parameters.
C6_DeclaredOutputsMatch ==
    pc = "done" => Len(configuredOutputs(parameters)) = Len(result)

\* a completed per-item run whose declared outputs include 'Other'
C6_Witness ==
    /\ pc = "done" /\ PerItemMode /\ parameters.options.fallback = "other"
    /\ Len(result) = 3 /\ Len(items) > 0

\* the error records of a branch that are paired with item k
ErrorRecordsFor(branch, k) ==
    {p \in DOMAIN branch : branch[p].kind = "error" /\ branch[p].pairedItem = k}

\* the answer of item k holds true the field that branch b (1-based) stands for
FieldTrueForBranch(k, b) ==
    IF b <= Len(categories) THEN outcomes[k + 1].output[categories[b].category]
    ELSE outcomes[k + 1].output["fallback"]

\* the input items routed to a branch, in the order the branch holds them
RoutedRefs(branch) ==
    LET IsItem(e) == e.kind = "item"
        routed == SelectSeq(branch, IsItem)
    IN [p \in DOMAIN routed |-> routed[p].ref]

\* C2: tolerant mode never raises: in per-item mode with a non-empty category
\* set and continue-on-fail active the run never throws, and when it completes
\* each failing item has exactly one error record, on branch 0 and paired with
\* its index, while every branch holds, in input order, exactly the succeeding
\* items whose answer sets the branch's field: what routing the succeeding
\* items alone would give.
C2_TolerantNeverRaises ==
    (PerItemMode /\ continueOnFail /\ Len(parameters.categories) > 0) =>
        /\ pc # "raised"
        /\ raised = NoError
        /\ pc = "done" =>
             /\ \A k \in ItemIndices : Failed(k) \/ Succeeded(k)
             /\ \A k \in ItemIndices : Failed(k) =>
                  /\ Cardinality(ErrorRecordsFor(result[1], k)) = 1
                  /\ \A b \in DOMAIN result : b # 1 => ErrorRecordsFor(result[b], k) = {}
                  /\ \A b \in DOMAIN result : ~OnBranch(result, b, k)
             /\ \A k \in ItemIndices : Succeeded(k) =>
                  \A b \in DOMAIN result : ErrorRecordsFor(result[b], k) = {}
             /\ \A b \in DOMAIN result :
                  LET refs == RoutedRefs(result[b])
                  IN /\ \A p, q \in DOMAIN refs : p < q => refs[p] < refs[q]
                     /\ Range(refs) = {k \in ItemIndices : Succeeded(k) /\ FieldTrueForBranch(k, b)}

\* a tolerant run completed with a failed item followed by a routed one
C2_Witness ==
    /\ PerItemMode /\ continueOnFail /\ pc = "done"
    /\ \E k, j \in ItemIndices :
         /\ k < j
         /\ outcomes[k + 1].status = "error"
         /\ ErrorRecordsFor(result[1], k) # {}
         /\ Succeeded(j) /\ \E b \in DOMAIN result : OnBranch(result, b, j)

\* C3 (as claimed): in per-item mode with continue-on-fail off, a run that
\* throws because an item failed classification throws an error that identifies
\* that item's index, and returns no branches.
C3_AbortIdentifiesItem ==
    (PerItemMode /\ ~continueOnFail /\ pc = "raised" /\ Len(categories) > 0
       /\ outcomes[itemIdx + 1].status = "error") =>
        /\ raised.item = itemIdx
        /\ result = <<>>

\* C4 (as claimed): in per-item mode with auto-fix disabled, a run over K items
\* makes exactly K model invocations, one per item.
C4_ExactlyOnePerItem ==
    (PerItemMode /\ ~parameters.options.enableAutoFixing /\ Len(categories) > 0
       /\ pc \in {"done", "raised"}) =>
        \A k \in ItemIndices : invocations[k + 1] = 1

\* the loop is done with item k (0-based): it was routed, tolerated or aborted on
Visited(k) == k < itemIdx \/ (k = itemIdx /\ pc = "raised")

\* C4 (amended): in per-item mode with auto-fix disabled, at every moment of a
\* run the model has been invoked exactly once for each item the loop is done
\* with whose text is defined, and never for an item whose text is missing or
\* that the loop has not reached (in particular none after an abort).
C4_OnePerItemWithText ==
    (PerItemMode /\ ~parameters.options.enableAutoFixing) =>
        \A k \in ItemIndices :
            invocations[k + 1] =
                (IF Len(categories) > 0 /\ Visited(k) /\ inputs[k + 1] # Undefined
                 THEN 1 ELSE 0)

\* a completed run without auto-fix, with a parse failure and a missing text
C4_Witness ==
    /\ PerItemMode /\ ~parameters.options.enableAutoFixing /\ pc = "done"
    /\ \E k, j \in ItemIndices :
         /\ outcomes[k + 1].error = PARSE_ERROR /\ invocations[k + 1] = 1
         /\ inputs[j + 1] = Undefined /\ invocations[j + 1] = 0

RECURSIVE SumFn(_, _)
\* f[0] + ... + f[n - 1]
SumFn(f, n) == IF n = 0 THEN 0 ELSE f[n - 1] + SumFn(f, n - 1)

\* total number of entries on all branches under construction
TotalPlaced == SumLen(returnData, Len(returnData))

\* number of true fields in the validated answer of item k (0 without an answer)
TrueFieldCount(k) ==
    IF Succeeded(k)
    THEN Cardinality({f \in DOMAIN outcomes[k + 1].output : outcomes[k + 1].output[f]})
    ELSE 0

\* number of branches whose field is true in the validated answer of item k
TrueBranchCount(k) ==
    IF Succeeded(k)
    THEN Cardinality({b \in DOMAIN returnData : FieldTrueForBranch(k, b)})
    ELSE 0

\* number of routed items / of error records on all branches
RoutedCount ==
    SumFn([b \in 0..(Len(returnData) - 1) |-> Len(RoutedRefs(returnData[b + 1]))],
          Len(returnData))

ErrorRecordCount == TotalPlaced - RoutedCount

\* every branch stands for a field of its own: category names are distinct and
\* none collides with the fallback field
NoFieldCollision == Len(schema) = Len(returnData)

\* C7 (as claimed): in per-item mode the total number of entries on all
\* branches is at most the sum over the items of the number of true fields in
\* each item's validated answer. Stated for category sets without colliding
\* names, where fields and branches correspond one to one.
C7_EntriesAtMostTrueFields ==
    (PerItemMode /\ pc \in {"loop", "done", "raised"} /\ NoFieldCollision) =>
        TotalPlaced <= SumFn([k \in ItemIndices |-> TrueFieldCount(k)], Len(items))

\* C7 (amended): the routed items on all branches are at most the sum over the
\* items of the number of branches whose field is true in the item's validated
\* answer (a field that several branches stand for counts once per branch), and
\* the other entries are error records, at most one per failed item.
C7_EntriesAtMostTrueBranches ==
    (PerItemMode /\ pc \in {"loop", "done", "raised"}) =>
        /\ RoutedCount <= SumFn([k \in ItemIndices |-> TrueBranchCount(k)], Len(items))
        /\ ErrorRecordCount
             <= SumFn([k \in ItemIndices |-> IF Failed(k) THEN 1 ELSE 0], Len(items))

\* a completed run holding an error record and an item routed to two branches
\* by an answer with more true fields than the item got entries
C7_Witness ==
    /\ PerItemMode /\ pc = "done" /\ ErrorRecordCount > 0
    /\ \E k \in ItemIndices : TrueBranchCount(k) = 2
    /\ \E k \in ItemIndices : Succeeded(k) /\ TrueBranchCount(k) < Len(returnData)

\* C8: in every state of a per-item run, no two entries of one branch (routed
\* items and error records alike) carry the same paired-item index.
C8_IndexOncePerBranch ==
    PerItemMode =>
        \A b \in DOMAIN returnData : \A p, q \in DOMAIN returnData[b] :
            p # q => PairedItemOf(returnData[b][p]) # PairedItemOf(returnData[b][q])

\* branch 0 holds an error record and a routed item, and the routed item is
\* also on the fallback branch
C8_Witness ==
    /\ PerItemMode /\ pc = "loop" /\ fallback = "other"
    /\ \E p, q \in DOMAIN returnData[1] :
         /\ returnData[1][p].kind = "error"
         /\ returnData[1][q].kind = "item"
         /\ OnBranch(returnData, Len(returnData), returnData[1][q].ref)

\* C9 (as claimed): the total number of entries on all branches is at most the
\* number of input items times 1 when multiClass is false, and times the
\* branch count when multiClass is true. Stated for category sets without
\* colliding names.
C9_AtMostOneDestinationUnlessMultiClass ==
    (PerItemMode /\ NoFieldCollision) =>
        TotalPlaced <= Len(items) * (IF parameters.options.multiClass
                                     THEN Len(returnData) ELSE 1)

\* C9 (amended): whatever multiClass is, the total number of entries on all
\* branches is at most the number of input items times the branch count.
C9_AtMostBranchCountPerItem ==
    PerItemMode => TotalPlaced <= Len(items) * Len(returnData)

\* with multiClass off, every item of a run sits on every branch
C9_Witness ==
    /\ PerItemMode /\ pc = "done" /\ ~parameters.options.multiClass
    /\ Len(items) > 0 /\ Len(returnData) > 1
    /\ TotalPlaced = Len(items) * Len(returnData)

\* C10: in aggregate mode a failure of the model call or of the answer parsing
\* is never thrown: whatever continue-on-fail is, the run returns exactly one
\* branch holding exactly one item, which carries the error message.
C10_AggregateDegradesToErrorItem ==
    (parameters.loadCategoriesFromInputItems /\ Len(items) > 0
       /\ outcomes[1].status = "error") =>
        /\ pc = "done"
        /\ raised = NoError
        /\ Len(result) = 1
        /\ Len(result[1]) = 1
        /\ result[1][1].kind = "error"
        /\ result[1][1].error = outcomes[1].error
        /\ result[1][1].error # ""

\* an aggregate run with continue-on-fail off whose answer failed to parse
C10_Witness ==
    /\ parameters.loadCategoriesFromInputItems /\ ~continueOnFail /\ pc = "done"
    /\ Len(items) > 0 /\ outcomes[1].error = PARSE_ERROR

\* C11 (as claimed): a successful aggregate run makes one classification for
\* the whole execution, whatever the number of input items, and returns one
\* branch holding exactly one synthetic item whose payload has the input text
\* and every field of the answer with the value the answer gave it.
C11_AggregateAnswerMerged ==
    (parameters.loadCategoriesFromInputItems /\ pc = "done" /\ outcomes[1].status = "ok") =>
        /\ \A k \in ItemIndices : k # 0 => outcomes[k + 1] = NotInvoked
        /\ Len(result) = 1
        /\ Len(result[1]) = 1
        /\ result[1][1].kind = "answer"
        /\ result[1][1].json["input"] = JsonString(inputs[1])
        /\ \A f \in DOMAIN outcomes[1].output :
             /\ f \in DOMAIN result[1][1].json
             /\ result[1][1].json[f] = JsonBoolean(outcomes[1].output[f])

\* C12: an empty category set is fatal before any item is processed: in both
\* modes, whatever continue-on-fail is, once the resolved set is known to be
\* empty the run has thrown the configuration error, has read no item's text,
\* has invoked the model for no item and returns nothing.
C12_EmptyCategoriesFatal ==
    (pc # "start"
       /\ (IF parameters.loadCategoriesFromInputItems
           THEN Len(items) = 0 ELSE Len(parameters.categories) = 0)) =>
        /\ pc = "raised"
        /\ raised = NodeOperationError("At least one category must be defined", NoIndex)
        /\ result = <<>>
        /\ returnData = <<>>
        /\ \A k \in ItemIndices :
             invocations[k + 1] = 0 /\ inputs[k + 1] = "unread" /\ outcomes[k + 1] = NotInvoked

\* a tolerant per-item run over two items thrown for its empty category set
C12_Witness ==
    /\ PerItemMode /\ continueOnFail /\ pc = "raised"
    /\ Len(parameters.categories) = 0 /\ Len(items) = 2

\* two categories of the resolved set have the same name
HasDuplicateNames(cats) ==
    \E i, j \in DOMAIN cats : i # j /\ cats[i].category = cats[j].category

\* C13 (as claimed): a resolved category set in which two categories have the
\* same name makes the run fail with a configuration error; no run goes on to
\* classification with such a set.
C13_DuplicateNamesRejected ==
    (pc # "start" /\ HasDuplicateNames(categories)) =>
        /\ pc = "raised"
        /\ raised.type = "NodeOperationError"
        /\ \A k \in ItemIndices : invocations[k + 1] = 0

\* C14 (as claimed): the answer contract built from a non-empty category set C
\* has exactly |C| + 1 fields when fallback is "other" and exactly |C| fields
\* when fallback is "discard".
C14_ContractFieldCount ==
    (pc \in {"loop", "aggregate", "done"} /\ Len(categories) > 0) =>
        Len(schema) = Len(categories) + (IF fallback = "other" THEN 1 ELSE 0)

\* the items of an aggregate run whose category or description is not a string
NonStringItems ==
    {k \in ItemIndices :
        items[k + 1].category = Undefined \/ items[k + 1].description = Undefined}

\* the items of an aggregate run whose category or description is not a
\* non-empty string
NonStringOrEmptyItems ==
    {k \in ItemIndices :
        items[k + 1].category \in {Undefined, ""} \/ items[k + 1].description \in {Undefined, ""}}

VALIDATION_MESSAGE == "Input item is missing a valid 'category' or 'description' field."

EmittedEntries ==
    UNION {Range(returnData[b]) : b \in DOMAIN returnData}
    \cup UNION {Range(result[b]) : b \in DOMAIN result}

\* C16 (as claimed): every error record a run emits, in per-item mode and in
\* aggregate mode, carries a non-empty error message and the index of the
\* input item it comes from.
C16_ErrorRecordsCarryMessageAndIndex ==
    \A e \in EmittedEntries : e.kind = "error" =>
        /\ e.error # ""
        /\ e.pairedItem \in ItemIndices

\* C18: in per-item mode an item whose text is undefined or null never
\* triggers a model invocation; with continue-on-fail active it leaves exactly
\* one error record, on branch 0 and paired with its index, and the run goes on
\* to read every following item; with continue-on-fail off the run is thrown
\* at that item with an error whose message names the item's index.
C18_MissingTextIsolated ==
    (PerItemMode /\ Len(categories) > 0) =>
        \A k \in ItemIndices : inputs[k + 1] = Undefined =>
            /\ invocations[k + 1] = 0
            /\ outcomes[k + 1] = NotInvoked
            /\ continueOnFail =>
                 /\ pc \in {"loop", "done"}
                 /\ Cardinality(ErrorRecordsFor(returnData[1], k)) = 1
                 /\ \A b \in DOMAIN returnData :
                      /\ b # 1 => ErrorRecordsFor(returnData[b], k) = {}
                      /\ ~OnBranch(returnData, b, k)
                 /\ pc = "done" =>
                      /\ result = returnData
                      /\ \A j \in ItemIndices : j > k => inputs[j + 1] # "unread"
            /\ ~continueOnFail =>
                 /\ pc = "raised"
                 /\ itemIdx = k
                 /\ raised = NodeOperationError("Text to classify for item is not defined", k)
                 /\ result = <<>>

\* a tolerant run with two branches completed: its first item had no text and
\* its second item was classified and routed
C18_Witness ==
    /\ PerItemMode /\ continueOnFail /\ pc = "done" /\ Len(result) > 1
    /\ Len(items) = 2 /\ inputs[1] = Undefined
    /\ Succeeded(1) /\ \E b \in DOMAIN result : OnBranch(result, b, 1)

\* what C19 says of a single state: an item is read only after every item
\* before it was invoked or skipped for its missing text, and once an item has
\* failed with continue-on-fail off the run is thrown at that item and no later
\* item was read or invoked
C19_AbortState ==
    PerItemMode =>
        /\ \A k \in ItemIndices : inputs[k + 1] # "unread" =>
             \A j \in ItemIndices : j < k =>
                 /\ inputs[j + 1] # "unread"
                 /\ invocations[j + 1] >= 1 \/ inputs[j + 1] = Undefined
        /\ \A k \in ItemIndices : (~continueOnFail /\ Failed(k)) =>
             /\ pc = "raised" /\ itemIdx = k
             /\ \A j \in ItemIndices : j > k =>
                  invocations[j + 1] = 0 /\ inputs[j + 1] = "unread"

\* what C19 says of a single step: the loop counter stays or advances by one,
\* only the item the loop is at is invoked, only if it was not invoked before,
\* and a thrown run invokes nothing more
C19_SequentialStep ==
    PerItemMode =>
        /\ itemIdx' \in {itemIdx, itemIdx + 1}
        /\ \A k \in ItemIndices : invocations'[k + 1] # invocations[k + 1] =>
             k = itemIdx /\ pc = "loop" /\ invocations[k + 1] = 0
        /\ pc = "raised" => (pc' = "raised" /\ invocations' = invocations)

\* C19: items are classified strictly one at a time in increasing index order,
\* and a run completes all items or aborts on the first non-tolerated failure:
\* once item i fails with continue-on-fail off no model invocation is ever made
\* for an item j > i, and every item before i was invoked or skipped for
\* missing text.
C19_SequentialAbortOnFirstFailure == []C19_AbortState /\ [][C19_SequentialStep]_vars

\* with continue-on-fail off the chain threw for the first of two items
C19_Witness ==
    /\ PerItemMode /\ ~continueOnFail /\ pc = "raised" /\ Len(items) = 2
    /\ outcomes[1].status = "error" /\ invocations[1] >= 1 /\ invocations[2] = 0

\* the entries of every branch are in strictly increasing order of the index
\* of the input item they come from
C20_Increasing(branches) ==
    \A b \in DOMAIN branches : \A p, q \in DOMAIN branches[b] :
        p < q => PairedItemOf(branches[b][p]) < PairedItemOf(branches[b][q])

\* during the loop every branch is a prefix of what it is after the step
C20_AppendOnly ==
    (PerItemMode /\ pc = "loop") =>
        /\ DOMAIN returnData' = DOMAIN returnData
        /\ \A b \in DOMAIN returnData :
             /\ Len(returnData'[b]) >= Len(returnData[b])
             /\ SubSeq(returnData'[b], 1, Len(returnData[b])) = returnData[b]

\* C20: order preservation: in every branch a per-item run builds and returns,
\* the entries (routed items and error records together) are in strictly
\* increasing order of their originating item index, and during the run each
\* branch only ever grows by appending at its end.
C20_OrderPreserved ==
    /\ [](PerItemMode => (C20_Increasing(returnData) /\ C20_Increasing(result)))
    /\ [][C20_AppendOnly]_vars

\* a returned branch holds the error record of item 0 followed by item 1
C20_Witness ==
    /\ PerItemMode /\ pc = "done" /\ Len(result[1]) = 2
    /\ result[1][1].kind = "error" /\ result[1][2].kind = "item"

\* C17: idempotence: under a model stub that returns the same answer for the
\* same input text, executing the node a second time with the same parameters
\* over the same batch ends as the first execution did and returns identical
\* branches (same number of branches, same entries with the same items, same
\* order), whether or not the second execution is given the item objects the
\* first one processed.
C17_Idempotent ==
    (run = 2 /\ pc \in {"done", "raised"}) =>
        /\ pc = first.pc
        /\ raised = first.raised
        /\ ResolvedBranches(result) = first.output
        /\ inputs = first.inputs
        /\ outcomes = first.outcomes

\* a second per-item execution over the reused item objects has returned two
\* branches that both hold both items
C17_Witness ==
    /\ run = 2 /\ first.reused /\ PerItemMode /\ pc = "done"
    /\ Len(items) = 2 /\ Len(result) = 2
    /\ \A b \in DOMAIN result : OnBranch(result, b, 0) /\ OnBranch(result, b, 1)

====
